---- MODULE Spec2Model ----
(***************************************************************************)
(* Link Loop: the board generator (utils/gameUtils.js), the path validator *)
(* and the interaction hook (hooks/useGameState.js, final revision).       *)
(***************************************************************************)
EXTENDS Integers, Sequences, FiniteSets, TLC

(***************************************************************************)
(* 32-bit unsigned words.  A word is the pair <<hi, lo>> of its two 16-bit *)
(* halves, so that no intermediate value leaves the checker's integers.    *)
(***************************************************************************)
W16 == 65536

\* seed >>> 0 for a non-negative integer seed below 2^31
ToUint32(n) == <<(n \div W16) % W16, n % W16>>

\* 2^k for k in 0..16
Pow2(k) ==
  <<1, 2, 4, 8, 16, 32, 64, 128, 256, 512, 1024, 2048, 4096, 8192, 16384,
    32768, 65536>>[k + 1]

\* x ^ y on w-bit operands (w a power of two), by halves
RECURSIVE XorBits(_, _, _)
XorBits(x, y, w) ==
  IF w = 1 THEN (x + y) % 2
  ELSE XorBits(x \div Pow2(w \div 2), y \div Pow2(w \div 2), w \div 2) * Pow2(w \div 2)
       + XorBits(x % Pow2(w \div 2), y % Pow2(w \div 2), w \div 2)

Xor16(x, y) == XorBits(x, y, 16)

\* a ^ b
Xor32(a, b) == <<Xor16(a[1], b[1]), Xor16(a[2], b[2])>>

\* t >>> k, for 0 < k < 16
Shr32(t, k) ==
  <<t[1] \div Pow2(k), (t[1] % Pow2(k)) * Pow2(16 - k) + t[2] \div Pow2(k)>>

\* (a + b) mod 2^32
Add32(a, b) ==
  <<(a[1] + b[1] + (a[2] + b[2]) \div W16) % W16, (a[2] + b[2]) % W16>>

\* the low 32 bits of x * y for 16-bit x, y, as a word
Mul16(x, y) ==
  LET y1 == y \div 256
      y0 == y % 256
      X  == x * y1
      Y  == x * y0
      m  == (X % 256) * 256 + Y
  IN  <<(X \div 256 + m \div W16) % W16, m % W16>>

\* Math.imul(a, b): the low 32 bits of the product
Imul32(a, b) ==
  LET ll    == Mul16(a[2], b[2])
      cross == (Mul16(a[1], b[2])[2] + Mul16(a[2], b[1])[2]) % W16
  IN  <<(ll[1] + cross) % W16, ll[2]>>

\* t | 1 and t | 61 (61 = 111101b: every low bit but bit 1 is set)
Or1(t)  == <<t[1], t[2] + (1 - (t[2] % 2))>>
Or61(t) == <<t[1], (t[2] \div 64) * 64 + 61 + 2 * ((t[2] \div 2) % 2)>>

\* A statement's value is computed when the statement runs, before the
\* statements after it: x first, then the rest.
Then(x, rest) == IF x = x THEN rest ELSE rest

\* One call of the closure mulberry32 returns: the closure's new state a and
\* the 32-bit numerator u of the value u / 2^32 it returns.
mulberry32(a) ==
  LET out(a1, t2) == Then(t2, [a |-> a1, u |-> Xor32(t2, Shr32(t2, 14))])
      mix(a1, t1) ==
        Then(t1, out(a1, Xor32(t1, Add32(t1, Imul32(Xor32(t1, Shr32(t1, 7)),
                                                    Or61(t1))))))
      scramble(a1) == Then(a1, mix(a1, Imul32(Xor32(a1, Shr32(a1, 15)), Or1(a1))))
  IN  scramble(Add32(a, <<27947, 31221>>))                \* a += 0x6D2B79F5

\* Math.floor(rng() * n) for the value u / 2^32 and a small positive n
FloorMul(u, n) == (u[1] * n + (u[2] * n) \div W16) \div W16

\* rng() < 0.5
LtHalf(u) == u[1] < 32768

\* rng() < 0.15, i.e. u <= 644245094 = 9830 * 2^16 + 26214
LtSwap(u) == u[1] < 9830 \/ (u[1] = 9830 /\ u[2] <= 26214)

(***************************************************************************)
(* createRng.  A seed is a non-negative integer, or NonNumeric (null, NaN, *)
(* a string: anything that fails typeof seed === 'number' && isFinite).    *)
(* For a non-numeric seed the stream comes from crypto / Math.random: the  *)
(* environment's choice, given here by the entropy word e that starts it.  *)
(***************************************************************************)
NonNumeric == -1

\* createRng that never uses the seed: every stream is the environment's
createRngUnseeded(seed, e) == ToUint32(e)

createRng(seed, e) ==
  IF seed >= 0 THEN ToUint32(seed) ELSE ToUint32(e)

(***************************************************************************)
(* buildRandomHamiltonianPath                                              *)
(***************************************************************************)
null == -1           \* an unlabeled cell of the grid (digits are 1..9)
Infinity == 99       \* Number.POSITIVE_INFINITY, above every degree
maxAttempts == 12

DIRS == << [name |-> "U", dr |-> -1, dc |-> 0],
           [name |-> "D", dr |-> 1,  dc |-> 0],
           [name |-> "L", dr |-> 0,  dc |-> -1],
           [name |-> "R", dr |-> 0,  dc |-> 1] >>

Cell(r, c) == [row |-> r, col |-> c]

inBounds(size, r, c) == r >= 0 /\ r < size /\ c >= 0 /\ c < size

Swap(arr, i, j) == [arr EXCEPT ![i] = arr[j], ![j] = arr[i]]

\* Array.prototype.sort with a comparator that compares keys: a stable sort.
\* ps is a sequence of records with an integer field k.
RECURSIVE InsertStable(_, _)
InsertStable(s, x) ==
  IF s = <<>> THEN <<x>>
  ELSE IF s[Len(s)].k <= x.k THEN Append(s, x)
  ELSE Append(InsertStable(SubSeq(s, 1, Len(s) - 1), x), s[Len(s)])

RECURSIVE SortStable(_)
SortStable(ps) ==
  IF ps = <<>> THEN <<>>
  ELSE InsertStable(SortStable(SubSeq(ps, 1, Len(ps) - 1)), ps[Len(ps)])

SortByKey(arr, keys) ==
  LET unzip(ps) == [i \in 1..Len(arr) |-> ps[i].v]
  IN  unzip(SortStable([i \in 1..Len(arr) |-> [k |-> keys[i], v |-> arr[i]]]))

\* for (let i = arr.length - 1; i > 0; i--) { j = floor(rng() * (i + 1)); swap }
\* i is the 0-based index of the source; the result carries the rng state on.
RECURSIVE FisherYates(_, _, _)
FisherYates(arr, i, a) ==
  LET swapWith(r) ==
        Then(r, FisherYates(Swap(arr, i + 1, FloorMul(r.u, i + 1) + 1), i - 1, r.a))
  IN  IF i <= 0 THEN [arr |-> arr, a |-> a] ELSE swapWith(mulberry32(a))

orientationBias(depth, a) ==
  LET pick(r2) == Then(r2, [phase |-> IF LtHalf(r2.u) THEN "H" ELSE "V", a |-> r2.a])
      roll(r1) == Then(r1, IF depth % (3 + FloorMul(r1.u, 3)) = 0
                           THEN pick(mulberry32(r1.a))
                           ELSE [phase |-> "null", a |-> r1.a])
  IN  roll(mulberry32(a))

\* the degree without the guard for a cell outside the grid or visited
unvisitedDegreeNoGuard(size, visited, r, c) ==
  Cardinality({i \in 1..4 :
    /\ inBounds(size, r + DIRS[i].dr, c + DIRS[i].dc)
    /\ Cell(r + DIRS[i].dr, c + DIRS[i].dc) \notin visited})

unvisitedDegree(size, visited, r, c) ==
  IF ~inBounds(size, r, c) \/ Cell(r, c) \in visited THEN Infinity
  ELSE Cardinality({i \in 1..4 :
         /\ inBounds(size, r + DIRS[i].dr, c + DIRS[i].dc)
         /\ Cell(r + DIRS[i].dr, c + DIRS[i].dc) \notin visited})

\* the soft bias re-sort: horizontal (or vertical) directions first
BiasKey(phase, d) ==
  IF phase = "H" THEN (IF d.name \in {"L", "R"} THEN 0 ELSE 1)
  ELSE IF phase = "V" THEN (IF d.name \in {"U", "D"} THEN 0 ELSE 1)
  ELSE 0

DegreeKeys(size, visited, r, c, arr) ==
  [i \in 1..Len(arr) |-> unvisitedDegree(size, visited, r + arr[i].dr, c + arr[i].dc)]

shuffledNeighbors(size, visited, r, c, depth, a) ==
  LET byDegree(biased, a2) ==
        Then(biased,
             [arr |-> SortByKey(biased, DegreeKeys(size, visited, r, c, biased)),
              a   |-> a2, biased |-> biased])
      byBias(phase, sh) ==
        Then(sh, byDegree(SortByKey(sh.arr, [i \in 1..4 |-> BiasKey(phase, sh.arr[i])]),
                          sh.a))
      shuffle(bias) == Then(bias, byBias(bias.phase, FisherYates(DIRS, 3, bias.a)))
  IN  shuffle(orientationBias(depth, a))

\* if (rng() < 0.15) swap two random entries
occasionalSwap(arr, a) ==
  LET swapAt(ri, rj) ==
        [arr |-> Swap(arr, FloorMul(ri.u, Len(arr)) + 1, FloorMul(rj.u, Len(arr)) + 1),
         a   |-> rj.a]
      draw(ri) == Then(ri, swapAt(ri, mulberry32(ri.a)))
      decide(r0) == Then(r0, IF LtSwap(r0.u) THEN draw(mulberry32(r0.a))
                             ELSE [arr |-> arr, a |-> r0.a])
  IN  decide(mulberry32(a))

(***************************************************************************)
(* dfs, as the machine that runs it.  m holds the closure's variables:     *)
(* visited (the set of the cells marked true), path, the rng state a, and  *)
(* stack, the activation records of the dfs calls in progress, innermost   *)
(* last: [r, c, depth, neighbors, i] with i the index (from 1) of the next *)
(* entry of neighbors the call's for loop will look at; a record also      *)
(* keeps what shuffledNeighbors returned (sorted) and the order it had     *)
(* before the sort by degree (biased).  start is the cell the attempt in   *)
(* progress began on, failed the start cells of the attempts of this call  *)
(* that returned false.  pc is "run"                                       *)
(* while a search is in progress and "done" once a result is returned.     *)
(***************************************************************************)

\* entering dfs(r, c, depth): lines 160-172, up to the for loop.  At full
\* depth it returns true, through every caller, and the attempt loop
\* returns path.slice().
dfsCall(m, r, c, depth) ==
  LET push(in, sn, sw) ==
        Then(sw, [in EXCEPT !.a = sw.a,
                            !.stack = Append(in.stack,
                               [r |-> r, c |-> c, depth |-> depth,
                                neighbors |-> sw.arr, i |-> 1,
                                sorted |-> sn.arr, biased |-> sn.biased])])
      order(in, sn) == Then(sn, push(in, sn, occasionalSwap(sn.arr, sn.a)))
      enter(in) ==
        Then(in, IF depth = m.size * m.size
                 THEN [in EXCEPT !.pc = "done", !.stack = <<>>]
                 ELSE order(in, shuffledNeighbors(m.size, in.visited, r, c, depth,
                                                  in.a)))
  IN  enter([m EXCEPT !.visited = m.visited \cup {Cell(r, c)},
                      !.path    = Append(m.path, Cell(r, c)),
                      !.calls   = m.calls + 1])

\* the loop that starts at the second entry of neighbors
FeasibleSkipFirst(m) ==
  LET f == m.stack[Len(m.stack)]
  IN  {j \in f.i..Len(f.neighbors) :
         /\ j >= 2
         /\ inBounds(m.size, f.r + f.neighbors[j].dr, f.c + f.neighbors[j].dc)
         /\ Cell(f.r + f.neighbors[j].dr, f.c + f.neighbors[j].dc) \notin m.visited}

\* the entries of the top call's neighbors, from its index i on, that the
\* loop does not skip (in bounds and not visited)
Feasible(m) ==
  LET f == m.stack[Len(m.stack)]
  IN  {j \in f.i..Len(f.neighbors) :
         /\ inBounds(m.size, f.r + f.neighbors[j].dr, f.c + f.neighbors[j].dc)
         /\ Cell(f.r + f.neighbors[j].dr, f.c + f.neighbors[j].dc) \notin m.visited}

Min(S) == CHOOSE x \in S : \A y \in S : x <= y

\* the last resort: shuffled columns, alternating row direction per column
ColumnSweep(size, cols) ==
  [k \in 1..(size * size) |->
     LET i == (k - 1) \div size
         n == (k - 1) % size
     IN  Cell(IF i % 2 = 0 THEN n ELSE size - 1 - n, cols[i + 1])]

fallbackSweep(m) ==
  [m EXCEPT !.pc = "done", !.fallback = TRUE,
            !.path = ColumnSweep(m.size,
                       FisherYates([x \in 1..m.size |-> x - 1], m.size - 1, m.a).arr)]

\* the attempt loop with attempt <= maxAttempts for attempt < maxAttempts
nextAttemptOneMore(m) ==
  LET restart(r1, r2) ==
        Then(r2, dfsCall([m EXCEPT !.attempt = m.attempt + 1, !.a = r2.a,
                                   !.visited = {}, !.path = <<>>, !.stack = <<>>,
                                   !.start = Cell(FloorMul(r1.u, m.size),
                                                  FloorMul(r2.u, m.size)),
                                   !.failed = m.failed \cup {m.start}],
                         FloorMul(r1.u, m.size), FloorMul(r2.u, m.size), 1))
      start(r1) == Then(r1, restart(r1, mulberry32(r1.a)))
  IN  IF m.attempt + 1 > maxAttempts
      THEN fallbackSweep([m EXCEPT !.attempt = m.attempt + 1,
                                   !.failed = m.failed \cup {m.start}])
      ELSE start(mulberry32(m.a))

\* the attempt loop's next iteration, after attempt m.attempt returned false
nextAttempt(m) ==
  LET restart(r1, r2) ==
        Then(r2, dfsCall([m EXCEPT !.attempt = m.attempt + 1, !.a = r2.a,
                                   !.visited = {}, !.path = <<>>, !.stack = <<>>,
                                   !.start = Cell(FloorMul(r1.u, m.size),
                                                  FloorMul(r2.u, m.size)),
                                   !.failed = m.failed \cup {m.start}],
                         FloorMul(r1.u, m.size), FloorMul(r2.u, m.size), 1))
      start(r1) == Then(r1, restart(r1, mulberry32(r1.a)))
  IN  IF m.attempt + 1 >= maxAttempts
      THEN fallbackSweep([m EXCEPT !.attempt = m.attempt + 1,
                                   !.failed = m.failed \cup {m.start}])
      ELSE start(mulberry32(m.a))

\* one step of the innermost call's for loop: the next dfs call it makes,
\* or, with no entry left, its backtrack and return false
dfsStep(m) ==
  LET return(out) == Then(out, IF out.stack = <<>> THEN nextAttempt(out) ELSE out)
      descend(f, j) ==
        dfsCall([m EXCEPT !.stack[Len(m.stack)].i = j + 1],
                f.r + f.neighbors[j].dr, f.c + f.neighbors[j].dc, f.depth + 1)
      loop(f, F) ==
        IF F # {} THEN descend(f, Min(F))
        ELSE return([m EXCEPT !.visited = m.visited \ {Cell(f.r, f.c)},
                              !.path  = SubSeq(m.path, 1, Len(m.path) - 1),
                              !.stack = SubSeq(m.stack, 1, Len(m.stack) - 1)])
  IN  IF m.pc = "done" THEN m ELSE loop(m.stack[Len(m.stack)], Feasible(m))

\* buildRandomHamiltonianPath up to its first dfs call, from the rng state a0
buildStart(size, a0) ==
  LET first(r1, r2) ==
        Then(r2, dfsCall([size |-> size, a |-> r2.a, visited |-> {}, path |-> <<>>,
                          stack |-> <<>>, attempt |-> 0, fallback |-> FALSE,
                          calls |-> 0, pc |-> "run",
                          start |-> Cell(FloorMul(r1.u, size), FloorMul(r2.u, size)),
                          failed |-> {}],
                         FloorMul(r1.u, size), FloorMul(r2.u, size), 1))
      start(r1) == Then(r1, first(r1, mulberry32(r1.a)))
  IN  start(mulberry32(a0))

\* 2^k steps of the machine (a finished machine stays as it is)
RECURSIVE RunPow(_, _)
RunPow(m, k) ==
  LET rest(h) == IF h.pc = "done" THEN h ELSE RunPow(h, k - 1)
  IN  IF k = 0 THEN dfsStep(m) ELSE rest(RunPow(m, k - 1))

RunLog == 12

\* the whole run of buildRandomHamiltonianPath from the rng state a0
buildRun(size, a0) == RunPow(buildStart(size, a0), RunLog)

buildRandomHamiltonianPath(size, seed, e) == buildRun(size, createRng(seed, e)).path

(***************************************************************************)
(* generateGrid                                                            *)
(***************************************************************************)
MaxOf(x, y) == IF x >= y THEN x ELSE y
MinOf(x, y) == IF x <= y THEN x ELSE y

\* Math.round(p / q) for p >= 0, q > 0
Round(p, q) == (2 * p + q) \div (2 * q)

\* base: evenly spaced indices over [0, total - 2]; i is 0-based
baseIndex(i, total, digitCountBeforeLast) ==
  IF digitCountBeforeLast = 1 THEN 0
  ELSE Round(i * (total - 2), MaxOf(1, digitCountBeforeLast - 1))

\* the jitter with scale 1.0 for every index
jitterOfFullScale(u, jitterMax, i) ==
  ((u[1] - 32768) * jitterMax + (u[2] * jitterMax) \div W16) \div 32768

\* Math.floor((rng() * 2 - 1) * jitterMax * scale) with scale = 0.4 for
\* i = 0 and 1.0 otherwise, for the value u / 2^32.  (rng() * 2 - 1) is
\* (u - 2^31) / 2^31; the product is taken exactly, as the scale 2/5 or 1.
jitterOf(u, jitterMax, i) ==
  LET num == IF i = 0 THEN 2 ELSE 1
      den == IF i = 0 THEN 5 ELSE 1
      Q   == (u[1] - 32768) * (jitterMax * num) + (u[2] * (jitterMax * num)) \div W16
  IN  Q \div (32768 * den)

\* base.map(...): the i-th entry draws the i-th value of the fresh rng
RECURSIVE jitterMap(_, _, _, _, _)
jitterMap(i, total, cnt, jitterMax, a) ==
  LET entry(r) ==
        Then(r, <<MinOf(total - 2,
                        MaxOf(0, baseIndex(i, total, cnt) + jitterOf(r.u, jitterMax, i)))>>
                  \o jitterMap(i + 1, total, cnt, jitterMax, r.a))
  IN  IF i >= cnt THEN <<>> ELSE entry(mulberry32(a))

\* jittered.sort((a, b) => a - b)
SortNumeric(xs) == SortByKey(xs, xs)

\* forwardPass without the bump of an index that does not exceed the one
\* before it: only the clamp to total - 2 is left
forwardPassClampOnly(xs, i, total) ==
  [k \in 1..Len(xs) |-> IF k < i THEN xs[k] ELSE MinOf(total - 2, xs[k])]

\* lines 58-61: force strictly increasing, clamped to total - 2; i is 1-based
RECURSIVE forwardPass(_, _, _)
forwardPass(xs, i, total) ==
  IF i > Len(xs) THEN xs
  ELSE forwardPass([xs EXCEPT ![i] =
                      MinOf(total - 2,
                            IF xs[i] <= xs[i - 1] THEN xs[i - 1] + 1 ELSE xs[i])],
                   i + 1, total)

\* lines 63-65: walk backwards to spread; i is 1-based
RECURSIVE backwardPass(_, _)
backwardPass(xs, i) ==
  IF i < 1 THEN xs
  ELSE backwardPass(IF xs[i] >= xs[i + 1]
                    THEN [xs EXCEPT ![i] = MaxOf(0, xs[i + 1] - 1)]
                    ELSE xs, i - 1)

\* lines 68-72: digit d goes to path[jittered[d - 1]], maxDigit to the end
RECURSIVE placeDigits(_, _, _, _, _)
placeDigits(grid, path, jittered, maxDigit, d) ==
  LET put(p) == placeDigits([grid EXCEPT ![p.row][p.col] = d],
                            path, jittered, maxDigit, d + 1)
  IN  IF d > maxDigit THEN grid
      ELSE put(path[(IF d = maxDigit THEN Len(path) - 1 ELSE jittered[d]) + 1])

emptyGrid(size) == [r \in 0..(size - 1) |-> [c \in 0..(size - 1) |-> null]]

\* lines 24-73: generateGrid once buildRandomHamiltonianPath has returned
\* (run is its finished machine), with aJit the state of the jitter's rng.
\* The record keeps the generating path and the digit indices beside the
\* grid that is returned.
placeRun(run, aJit) ==
  LET result(maxDigit, jittered) ==
        [grid     |-> IF maxDigit <= 0 THEN emptyGrid(run.size)
                      ELSE placeDigits(emptyGrid(run.size), run.path, jittered, maxDigit, 1),
         path     |-> run.path,
         jittered |-> jittered,
         maxDigit |-> maxDigit,
         fallback |-> run.fallback,
         attempt  |-> run.attempt]
      spread(total, maxDigit, sorted) ==
        Then(sorted, result(maxDigit, backwardPass(forwardPass(sorted, 2, total),
                                                   Len(sorted) - 1)))
      digits(total, maxDigit) ==
        spread(total, maxDigit,
               SortNumeric(jitterMap(0, total, MaxOf(0, maxDigit - 1),
                                     MaxOf(1, total \div (maxDigit * 3)), aJit)))
  IN  digits(Len(run.path), MinOf(9, Len(run.path)))

\* generateGrid from the two rng states createRng(seed) gives: aPath inside
\* buildRandomHamiltonianPath and aJit for the jitter
generateRun(size, aPath, aJit) == placeRun(buildRun(size, aPath), aJit)

generateGrid(size, seed, e1, e2) ==
  generateRun(size, createRng(seed, e1), createRng(seed, e2)).grid

(***************************************************************************)
(* isAdjacent, nextRequiredDigitFromPath, validatePath                     *)
(***************************************************************************)
Abs(x) == IF x < 0 THEN -x ELSE x

\* the neighbour test that also takes the diagonal neighbours
isAdjacentOrDiagonal(a, b) ==
  MaxOf(Abs(a.row - b.row), Abs(a.col - b.col)) = 1

isAdjacent(a, b) == Abs(a.row - b.row) + Abs(a.col - b.col) = 1

gridLength(grid) == Cardinality(DOMAIN grid)

GridCells(grid) ==
  {Cell(r, c) : r \in 0..(gridLength(grid) - 1), c \in 0..(gridLength(grid) - 1)}

valueAt(grid, p) == grid[p.row][p.col]

SetMax(S) == CHOOSE x \in S : \A y \in S : x >= y

\* the largest number on the grid, 0 when there is none
maxDigitOf(grid) ==
  SetMax({0} \cup {valueAt(grid, p) : p \in {q \in GridCells(grid) : valueAt(grid, q) # null}})

\* the scan of lines 241-252 from the 1-based index i with maxSeen so far
RECURSIVE scanMaxSeen(_, _, _, _)
scanMaxSeen(grid, path, i, maxSeen) ==
  IF i > Len(path) THEN maxSeen
  ELSE LET v == valueAt(grid, path[i])
       IN  IF v # null /\ v = maxSeen + 1 THEN scanMaxSeen(grid, path, i + 1, v)
           ELSE IF v # null /\ v > maxSeen + 1 THEN maxSeen
           ELSE scanMaxSeen(grid, path, i + 1, maxSeen)

\* the required digit without the cap at the grid's largest digit
nextRequiredDigitUncapped(grid, path) ==
  scanMaxSeen(grid, path, 1, 0) + 1

nextRequiredDigitFromPath(grid, path) ==
  MinOf(scanMaxSeen(grid, path, 1, 0) + 1, MaxOf(1, maxDigitOf(grid)))

\* the reasons, as the words of the message (a number is a word of its own)
ReasonEveryCell   == <<"Path must visit every cell once">>
ReasonTwice       == <<"Path visits a cell more than once">>
ReasonNonAdjacent == <<"Non-adjacent cells in path">>
ReasonMissing     == <<"Missing numbered cells in path">>
ReasonNotAscending == <<"Digits are not in ascending order along the path">>
ReasonMustEndOn(maxDigit) == <<"Path must end on ", maxDigit>>
ReasonValid       == <<"Valid path">>

Result(ok, reason) == [ok |-> ok, reason |-> reason]

\* positions[val] = idx for every path cell with a value, the last one winning
positionsOf(grid, path) ==
  LET vals == {valueAt(grid, path[i]) : i \in {j \in 1..Len(path) : valueAt(grid, path[j]) # null}}
  IN  [v \in vals |-> SetMax({i \in 1..Len(path) : valueAt(grid, path[i]) = v}) - 1]

\* the digit loop that only asks for d and d + 1 to be on the path
digitOrderPresenceOnly(positions, maxDigit) ==
  IF \A d \in 1..(maxDigit - 1) : d \in DOMAIN positions /\ (d + 1) \in DOMAIN positions
  THEN ReasonValid
  ELSE ReasonMissing

\* lines 322-329: the first d of 1..maxDigit-1 that fails decides
digitOrderCheck(positions, maxDigit) ==
  LET bad == {d \in 1..(maxDigit - 1) :
                \/ d \notin DOMAIN positions
                \/ (d + 1) \notin DOMAIN positions
                \/ positions[d] > positions[d + 1]}
  IN  IF bad = {} THEN ReasonValid
      ELSE LET d == Min(bad)
           IN  IF d \notin DOMAIN positions \/ (d + 1) \notin DOMAIN positions
               THEN ReasonMissing
               ELSE ReasonNotAscending

\* validatePath with the Set-size check moved in front of the length check
validatePathDistinctFirst(grid, path) ==
  LET size      == gridLength(grid)
      seen      == {path[i] : i \in 1..Len(path)}
      maxDigit  == maxDigitOf(grid)
      order     == digitOrderCheck(positionsOf(grid, path), maxDigit)
  IN  IF Cardinality(seen) # Len(path) THEN Result(FALSE, ReasonTwice)
      ELSE IF Len(path) # size * size THEN Result(FALSE, ReasonEveryCell)
      ELSE IF \E i \in 2..Len(path) : ~isAdjacent(path[i - 1], path[i])
           THEN Result(FALSE, ReasonNonAdjacent)
      ELSE IF order # ReasonValid THEN Result(FALSE, order)
      ELSE IF valueAt(grid, path[Len(path)]) # maxDigit
           THEN Result(FALSE, ReasonMustEndOn(maxDigit))
      ELSE Result(TRUE, ReasonValid)

validatePath(grid, path) ==
  LET size      == gridLength(grid)
      seen      == {path[i] : i \in 1..Len(path)}
      maxDigit  == maxDigitOf(grid)
      order     == digitOrderCheck(positionsOf(grid, path), maxDigit)
  IN  IF Len(path) # size * size THEN Result(FALSE, ReasonEveryCell)
      ELSE IF Cardinality(seen) # Len(path) THEN Result(FALSE, ReasonTwice)
      ELSE IF \E i \in 2..Len(path) : ~isAdjacent(path[i - 1], path[i])
           THEN Result(FALSE, ReasonNonAdjacent)
      ELSE IF order # ReasonValid THEN Result(FALSE, order)
      ELSE IF valueAt(grid, path[Len(path)]) # maxDigit
           THEN Result(FALSE, ReasonMustEndOn(maxDigit))
      ELSE Result(TRUE, ReasonValid)

(***************************************************************************)
(* useGameState: the session.  One behaviour is one mounted hook with its  *)
(* size and seed parameters; randomSeed() is the environment's choice.     *)
(***************************************************************************)
Sizes        == {2, 3, 4}           \* the hook's size parameter
InitialSeeds == {1337}              \* its seed parameter (App.js passes 1337)
RandomSeeds  == {42, 25819}         \* values randomSeed() returns
MaxEvents    == 7                   \* events delivered in one behaviour

VARIABLES
  size,         \* the size parameter
  initialSeed,  \* the seed parameter
  gridSeed, grid, path, history, isDrawing, completed, validation, invalidAt,
  started,      \* the hook's state cells
  ev,           \* the last event delivered: [kind, cell], and n, how many were
  threw,        \* whether its handler ended by an uncaught TypeError
  grids,        \* generateGrid(size, s) for each seed s of the session: the
                \* function is pure on numeric seeds, its results are kept
  gen,          \* a caller of generateGrid and the call it has in progress
  val           \* a caller of validatePath and nextRequiredDigitFromPath

hookVars == <<gridSeed, grid, path, history, isDrawing, completed, validation,
              invalidAt, started>>
sessionVars == <<size, initialSeed, gridSeed, grid, path, history, isDrawing,
                 completed, validation, invalidAt, started, ev, threw, grids>>
vars == <<sessionVars, gen, val>>

\* gen and val while no call is made
NoCall == [phase |-> "off"]

NoCell == [row |-> -1, col |-> -1]         \* invalidAt = null
NoValidation == Result(FALSE, <<"">>)      \* { ok: false, reason: '' }
ReasonStartOnOne == <<"Start on 1 to begin the sequence">>
ReasonRevisit    == <<"Cannot revisit a previous cell">>
ReasonMustGoTo(mustBe) == <<"You must go to ", mustBe, " next">>

\* the record of the event being handled: its kind, its cell, its number
\* and what it found (drawn: the length of the path being drawn, -1 when
\* the engine is not drawing; before: for a drag-enter while drawing, the
\* path and the history it found).  seeds: the values its randomSeed()
\* calls returned, in order.
Event(kind, cell) ==
  [kind |-> kind, cell |-> cell, n |-> ev.n + 1,
   drawn |-> IF isDrawing THEN Len(path) ELSE -1,
   before |-> IF kind = "drag" /\ isDrawing THEN <<path, history>> ELSE <<>>,
   seeds |-> <<>>]

gridSize == gridLength(grid)

isInside(c) == c.row >= 0 /\ c.row < gridSize /\ c.col >= 0 /\ c.col < gridSize

pathSet == {path[i] : i \in 1..Len(path)}

\* the cells an event can resolve to, and one outside the grid
Cells == {Cell(r, c) : r \in 0..(size - 1), c \in 0..(size - 1)}
EventCells == Cells \cup {Cell(0, size)}

\* lines 51-54
hasOne(g) == \E p \in GridCells(g) : valueAt(g, p) = 1

\* the Start gate left out
gateOpen == FALSE

\* the Start gate, if (!started) return: lines 46, 68, 204, 210, 252, 260
notStarted == ~started

\* lines 46-47 and 68-70: the early returns
startPathAtIgnored(c) == notStarted \/ ~isInside(c)
extendPathToIgnored(c) == notStarted \/ ~isInside(c) \/ ~isDrawing

\* the start rule that only turns away unlabeled cells
mustStartOnDigit(g, c) == hasOne(g) /\ valueAt(g, c) = null

\* line 55
mustStartElsewhere(g, c) == hasOne(g) /\ valueAt(g, c) # 1

startPathAt(c) ==
  IF startPathAtIgnored(c) THEN UNCHANGED hookVars
  ELSE IF mustStartElsewhere(grid, c)
  THEN /\ invalidAt' = c
       /\ isDrawing' = FALSE
       /\ validation' = Result(FALSE, ReasonStartOnOne)
       /\ UNCHANGED <<gridSeed, grid, path, history, completed, started>>
  ELSE /\ invalidAt' = NoCell
       /\ history' = Append(history, <<c>>)
       /\ path' = <<c>>
       /\ isDrawing' = TRUE
       /\ UNCHANGED <<gridSeed, grid, completed, validation, started>>

\* the backtrack test with path.length > 2 for path.length >= 2
isBacktrackLongPath(c) == Len(path) > 2 /\ path[Len(path) - 1] = c

\* the backtrack test that takes any earlier cell of the path for the previous one
isBacktrackAnyEarlier(c) == Len(path) >= 2 /\ c \in pathSet /\ c # path[Len(path)]

\* lines 79-81
isBacktrack(c) == Len(path) >= 2 /\ path[Len(path) - 1] = c

\* the digit test left out: any digit is taken
wrongDigitNever(g, p, c) == FALSE

\* the digit test that only turns away digits below the required one
wrongDigitBelow(g, p, c) ==
  valueAt(g, c) # null /\ valueAt(g, c) < nextRequiredDigitFromPath(g, p)

\* lines 97-100: the target holds a number other than the required one
wrongDigit(g, p, c) ==
  valueAt(g, c) # null /\ valueAt(g, c) # nextRequiredDigitFromPath(g, p)

\* extendPathTo whose backtrack pops the last snapshot instead of pushing one
extendFromPoppingBacktrack(c) ==
  LET last == path[Len(path)]
  IN  IF last = c \/ ~isAdjacent(last, c)
      THEN /\ invalidAt' = NoCell
           /\ UNCHANGED <<gridSeed, grid, path, history, isDrawing, completed,
                          validation, started>>
      ELSE IF isBacktrack(c)
      THEN /\ invalidAt' = NoCell
           /\ history' = SubSeq(history, 1, Len(history) - 1)
           /\ path' = SubSeq(path, 1, Len(path) - 1)
           /\ UNCHANGED <<gridSeed, grid, isDrawing, completed, validation, started>>
      ELSE IF c \in pathSet
      THEN /\ invalidAt' = c
           /\ validation' = Result(FALSE, ReasonRevisit)
           /\ UNCHANGED <<gridSeed, grid, path, history, isDrawing, completed, started>>
      ELSE IF wrongDigit(grid, path, c)
      THEN /\ invalidAt' = c
           /\ validation' =
                Result(FALSE, ReasonMustGoTo(nextRequiredDigitFromPath(grid, path)))
           /\ UNCHANGED <<gridSeed, grid, path, history, isDrawing, completed, started>>
      ELSE /\ invalidAt' = NoCell
           /\ history' = Append(history, Append(path, c))
           /\ path' = Append(path, c)
           /\ UNCHANGED <<gridSeed, grid, isDrawing, completed, validation, started>>

\* extendPathTo past its early returns, with a non-empty path
extendFrom(c) ==
  LET last == path[Len(path)]
  IN  IF last = c \/ ~isAdjacent(last, c)
      THEN /\ invalidAt' = NoCell
           /\ UNCHANGED <<gridSeed, grid, path, history, isDrawing, completed,
                          validation, started>>
      ELSE IF isBacktrack(c)
      THEN /\ invalidAt' = NoCell
           /\ history' = Append(history, SubSeq(path, 1, Len(path) - 1))
           /\ path' = SubSeq(path, 1, Len(path) - 1)
           /\ UNCHANGED <<gridSeed, grid, isDrawing, completed, validation, started>>
      ELSE IF c \in pathSet
      THEN /\ invalidAt' = c
           /\ validation' = Result(FALSE, ReasonRevisit)
           /\ UNCHANGED <<gridSeed, grid, path, history, isDrawing, completed, started>>
      ELSE IF wrongDigit(grid, path, c)
      THEN /\ invalidAt' = c
           /\ validation' =
                Result(FALSE, ReasonMustGoTo(nextRequiredDigitFromPath(grid, path)))
           /\ UNCHANGED <<gridSeed, grid, path, history, isDrawing, completed, started>>
      ELSE /\ invalidAt' = NoCell
           /\ history' = Append(history, Append(path, c))
           /\ path' = Append(path, c)
           /\ UNCHANGED <<gridSeed, grid, isDrawing, completed, validation, started>>

\* With an empty path, last is undefined and isAdjacent(last, ...) reads
\* last.row: a TypeError, after setInvalidAt(null) was queued.
extendPathTo(c) ==
  IF extendPathToIgnored(c) THEN UNCHANGED hookVars /\ threw' = FALSE
  ELSE IF path = <<>>
  THEN /\ invalidAt' = NoCell
       /\ threw' = TRUE
       /\ UNCHANGED <<gridSeed, grid, path, history, isDrawing, completed,
                      validation, started>>
  ELSE extendFrom(c) /\ threw' = FALSE

\* endPath that completes on any full path, whatever the validator says
endPathCompletesAnyFullPath ==
  /\ isDrawing' = FALSE
  /\ IF Len(path) = gridSize * gridSize
     THEN /\ validation' = validatePath(grid, path)
          /\ completed' = TRUE
     ELSE UNCHANGED <<validation, completed>>
  /\ UNCHANGED <<gridSeed, grid, path, history, invalidAt, started>>

endPath ==
  /\ isDrawing' = FALSE
  /\ IF Len(path) = gridSize * gridSize
     THEN /\ validation' = validatePath(grid, path)
          /\ completed' = validatePath(grid, path).ok
     ELSE UNCHANGED <<validation, completed>>
  /\ UNCHANGED <<gridSeed, grid, path, history, invalidAt, started>>

\* undo that leaves the last snapshot on the history when it empties the path
undoKeepsLastSnapshot ==
  /\ invalidAt' = NoCell
  /\ IF Len(history) <= 1
     THEN path' = <<>> /\ history' = history
     ELSE /\ history' = SubSeq(history, 1, Len(history) - 1)
          /\ path' = history[Len(history) - 1]
  /\ completed' = FALSE
  /\ validation' = NoValidation
  /\ UNCHANGED <<gridSeed, grid, isDrawing, started>>

\* undo that restores the snapshot it pops instead of the one below it
undoToPoppedSnapshot ==
  /\ invalidAt' = NoCell
  /\ IF Len(history) <= 1
     THEN path' = <<>> /\ history' = <<>>
     ELSE /\ history' = SubSeq(history, 1, Len(history) - 1)
          /\ path' = history[Len(history)]
  /\ completed' = FALSE
  /\ validation' = NoValidation
  /\ UNCHANGED <<gridSeed, grid, isDrawing, started>>

undo ==
  /\ invalidAt' = NoCell
  /\ IF Len(history) <= 1
     THEN path' = <<>> /\ history' = <<>>
     ELSE /\ history' = SubSeq(history, 1, Len(history) - 1)
          /\ path' = history[Len(history) - 1]
  /\ completed' = FALSE
  /\ validation' = NoValidation
  /\ UNCHANGED <<gridSeed, grid, isDrawing, started>>

clearTransientState ==
  /\ invalidAt' = NoCell
  /\ path' = <<>>
  /\ history' = <<>>
  /\ completed' = FALSE
  /\ validation' = NoValidation

\* reset that leaves the validation message
resetKeepsMessage ==
  /\ invalidAt' = NoCell
  /\ path' = <<>>
  /\ history' = <<>>
  /\ completed' = FALSE
  /\ UNCHANGED <<gridSeed, grid, isDrawing, started, validation>>

reset == clearTransientState /\ UNCHANGED <<gridSeed, grid, isDrawing, started>>

\* setGridSeed without the effect that rebuilds the grid
setGridSeedOnly(sd) == gridSeed' = sd /\ grid' = grid

\* setGridSeed, and the effect of lines 23-25 that rebuilds the grid from it
setGridSeed(sd) == gridSeed' = sd /\ grid' = grids[sd]

\* resetAll without setGridSeed(initialSeed)
resetAllKeepsSeed ==
  /\ isDrawing' = FALSE
  /\ invalidAt' = NoCell
  /\ path' = <<>>
  /\ history' = <<>>
  /\ completed' = FALSE
  /\ validation' = NoValidation
  /\ started' = FALSE
  /\ UNCHANGED <<gridSeed, grid>>

\* resetAll without setIsDrawing(false)
resetAllKeepsDrawing ==
  /\ invalidAt' = NoCell
  /\ path' = <<>>
  /\ history' = <<>>
  /\ completed' = FALSE
  /\ validation' = NoValidation
  /\ started' = FALSE
  /\ setGridSeed(initialSeed)
  /\ UNCHANGED isDrawing

resetAll ==
  /\ isDrawing' = FALSE
  /\ invalidAt' = NoCell
  /\ path' = <<>>
  /\ history' = <<>>
  /\ completed' = FALSE
  /\ validation' = NoValidation
  /\ started' = FALSE
  /\ setGridSeed(initialSeed)

\* s1, s2: the values of the first and of the second randomSeed() call
startGame(s1, s2) ==
  /\ started' = TRUE
  /\ setGridSeed(IF s1 = gridSeed THEN s2 ELSE s1)
  /\ UNCHANGED <<path, history, isDrawing, completed, validation, invalidAt>>

\* restartGame that clears the path but keeps the grid
restartKeepsGrid(s1) ==
  /\ clearTransientState
  /\ started' = TRUE
  /\ UNCHANGED <<gridSeed, grid, isDrawing>>

restartGame(s1) ==
  /\ setGridSeed(s1)
  /\ clearTransientState
  /\ started' = TRUE
  /\ UNCHANGED isDrawing

\* the cancel that only leaves drawing and keeps the trail
cancelKeepsTrail ==
  IF Len(path) # gridSize * gridSize
  THEN /\ isDrawing' = FALSE
       /\ UNCHANGED <<gridSeed, grid, path, history, completed, validation,
                      invalidAt, started>>
  ELSE UNCHANGED hookVars

cancelCurrentRunIfIncomplete ==
  IF Len(path) # gridSize * gridSize
  THEN /\ isDrawing' = FALSE
       /\ invalidAt' = NoCell
       /\ path' = <<>>
       /\ history' = <<>>
       /\ completed' = FALSE
       /\ validation' = NoValidation
       /\ UNCHANGED <<gridSeed, grid, started>>
  ELSE UNCHANGED hookVars

(***************************************************************************)
(* The events.  Pointer and touch handlers that run the same code are one  *)
(* event: press (onPointerDown, onTouchStart), drag (onPointerMove,        *)
(* onTouchMove), release (onPointerUp, onTouchEnd), cancel                 *)
(* (onPointerCancel, onTouchCancel), leave (onPointerLeave).               *)
(***************************************************************************)
params == <<size, initialSeed, grids, gen, val>>

\* one more event can be delivered
CanDeliver == ev.n < MaxEvents

onPointerDown(c) ==
  /\ CanDeliver
  /\ IF notStarted THEN UNCHANGED hookVars ELSE startPathAt(c)
  /\ ev' = Event("press", c) /\ threw' = FALSE /\ UNCHANGED params

onPointerMove(c) ==
  /\ CanDeliver
  /\ IF notStarted THEN UNCHANGED hookVars /\ threw' = FALSE ELSE extendPathTo(c)
  /\ ev' = Event("drag", c) /\ UNCHANGED params

onPointerUp ==
  /\ CanDeliver
  /\ IF ~isDrawing THEN UNCHANGED hookVars
     ELSE IF Len(path) = gridSize * gridSize THEN endPath
     ELSE cancelCurrentRunIfIncomplete
  /\ ev' = Event("release", NoCell) /\ threw' = FALSE /\ UNCHANGED params

onPointerCancel ==
  /\ CanDeliver
  /\ cancelCurrentRunIfIncomplete
  /\ ev' = Event("cancel", NoCell) /\ threw' = FALSE /\ UNCHANGED params

onPointerLeave ==
  /\ CanDeliver
  /\ IF isDrawing THEN cancelCurrentRunIfIncomplete ELSE UNCHANGED hookVars
  /\ ev' = Event("leave", NoCell) /\ threw' = FALSE /\ UNCHANGED params

handleBlur ==
  /\ CanDeliver
  /\ isDrawing' = FALSE
  /\ UNCHANGED <<gridSeed, grid, path, history, completed, validation, invalidAt, started>>
  /\ ev' = Event("blur", NoCell) /\ threw' = FALSE /\ UNCHANGED params

Undo ==
  /\ CanDeliver
  /\ undo
  /\ ev' = Event("undo", NoCell) /\ threw' = FALSE /\ UNCHANGED params

Reset ==
  /\ CanDeliver
  /\ reset
  /\ ev' = Event("reset", NoCell) /\ threw' = FALSE /\ UNCHANGED params

ResetAll ==
  /\ CanDeliver
  /\ resetAll
  /\ ev' = Event("resetAll", NoCell) /\ threw' = FALSE /\ UNCHANGED params

StartGame ==
  /\ CanDeliver
  /\ \E s1, s2 \in RandomSeeds :
       /\ startGame(s1, s2)
       /\ ev' = [Event("start", NoCell) EXCEPT
                   !.seeds = IF s1 = gridSeed THEN <<s1, s2>> ELSE <<s1>>]
  /\ threw' = FALSE /\ UNCHANGED params

RestartGame ==
  /\ CanDeliver
  /\ \E s1 \in RandomSeeds :
       /\ restartGame(s1)
       /\ ev' = [Event("restart", NoCell) EXCEPT !.seeds = <<s1>>]
  /\ threw' = FALSE /\ UNCHANGED params

Init ==
  /\ size \in Sizes
  /\ initialSeed \in InitialSeeds
  /\ gridSeed = initialSeed
  /\ grids = [sd \in InitialSeeds \cup RandomSeeds |-> generateGrid(size, sd, 0, 0)]
  /\ grid = grids[initialSeed]
  /\ path = <<>>
  /\ history = <<>>
  /\ isDrawing = FALSE
  /\ completed = FALSE
  /\ validation = NoValidation
  /\ invalidAt = NoCell
  /\ started = FALSE
  /\ ev = [kind |-> "mount", cell |-> NoCell, n |-> 0, drawn |-> -1,
        before |-> <<>>, seeds |-> <<>>]
  /\ threw = FALSE
  /\ gen = NoCall
  /\ val = NoCall

Next ==
  \/ \E c \in EventCells : onPointerDown(c)
  \/ \E c \in EventCells : onPointerMove(c)
  \/ onPointerUp
  \/ onPointerCancel
  \/ onPointerLeave
  \/ handleBlur
  \/ Undo
  \/ Reset
  \/ ResetAll
  \/ StartGame
  \/ RestartGame

Spec == Init /\ [][Next]_vars

(***************************************************************************)
(* The generator on its own: a caller makes up to MaxCalls calls of        *)
(* generateGrid, one after the other.  A call runs                         *)
(* buildRandomHamiltonianPath one dfs step at a time, then places the      *)
(* digits.  For a non-numeric seed each createRng draws its stream from    *)
(* the environment (an entropy word of Entropy).                           *)
(***************************************************************************)
GenSizes == {1, 2, 3, 4}
GenSeeds == {25819, NonNumeric}
Entropy  == {7, 11, 42}
MaxCalls == 3

\* no session is mounted
SessionOff ==
  /\ size = 0 /\ initialSeed = 0 /\ gridSeed = 0 /\ grids = <<>> /\ grid = <<>>
  /\ path = <<>> /\ history = <<>> /\ isDrawing = FALSE /\ completed = FALSE
  /\ validation = NoValidation /\ invalidAt = NoCell /\ started = FALSE
  /\ ev = [kind |-> "off", cell |-> NoCell, n |-> 0, drawn |-> -1,
        before |-> <<>>, seeds |-> <<>>] /\ threw = FALSE

NoGrid == <<>>

\* generateGrid(n, sd) is called: createRng and the first dfs call
GenCall(n, sd, e) ==
  /\ gen.phase \in {"idle", "returned"}
  /\ gen.calls < MaxCalls
  /\ gen' = [gen EXCEPT !.phase = "path", !.size = n, !.seed = sd,
                        !.m = buildStart(n, createRng(sd, e)),
                        !.out = NoGrid, !.calls = gen.calls + 1]
  /\ UNCHANGED <<sessionVars, val>>

\* one step of dfs
GenStep ==
  /\ gen.phase = "path" /\ gen.m.pc = "run"
  /\ gen' = [gen EXCEPT !.m = dfsStep(gen.m)]
  /\ UNCHANGED <<sessionVars, val>>

\* the path is returned; the digits are placed and the grid is returned.
\* The caller keeps the first grid it got for a numeric seed (first), with
\* the number of the call that returned it.
GenReturn(e) ==
  /\ gen.phase = "path" /\ gen.m.pc = "done"
  /\ gen' = [gen EXCEPT
               !.phase = "returned",
               !.out = placeRun(gen.m, createRng(gen.seed, e)),
               !.first = IF gen.first = NoCall /\ gen.seed # NonNumeric
                         THEN [phase |-> "kept", size |-> gen.size, seed |-> gen.seed,
                               call |-> gen.calls,
                               grid |-> placeRun(gen.m, createRng(gen.seed, e)).grid]
                         ELSE gen.first]
  /\ UNCHANGED <<sessionVars, val>>

GenInit ==
  /\ SessionOff
  /\ val = NoCall
  /\ gen = [phase |-> "idle", size |-> 0, seed |-> 0, m |-> NoCall, out |-> NoGrid,
            first |-> NoCall, calls |-> 0]

GenNext ==
  \/ \E n \in GenSizes, sd \in GenSeeds, e \in Entropy : GenCall(n, sd, e)
  \/ GenStep
  \/ \E e \in Entropy : GenReturn(e)

GenSpec == GenInit /\ [][GenNext]_vars

\* The generator's termination: the caller makes up to LiveCalls calls, with
\* any seed of LiveSeeds.  generateGrid is synchronous code: once called, its
\* steps are taken one after the other until it returns.
LiveSeeds == {6, 42, 1337, 25819, 50247, NonNumeric}
LiveCalls == 1

GenLiveNext ==
  \/ \E n \in GenSizes, sd \in LiveSeeds, e \in Entropy :
       gen.calls < LiveCalls /\ GenCall(n, sd, e)
  \/ GenStep
  \/ \E e \in Entropy : GenReturn(e)

\* a step of the call in progress: any step that changes gen while a call
\* runs (the return is one such step; GenLiveNext allows GenStep and
\* GenReturn only)
GenProgress ==
  /\ gen.phase = "path"
  /\ (gen' = [gen EXCEPT !.phase = "returned"] \/ gen' # gen)
  /\ UNCHANGED <<sessionVars, val>>

GenLive ==
  /\ GenInit /\ [][GenLiveNext]_vars
  /\ WF_vars(GenProgress)

(***************************************************************************)
(* The digit placement on its own: generateGrid from line 24 on, once      *)
(* buildRandomHamiltonianPath has returned a path of size * size cells.    *)
(* The indices the digits get depend on the path's length and on the       *)
(* jitter's rng only, so any path of that length stands for the one        *)
(* returned: here the column sweep in the order 0, 1, ..., size - 1.       *)
(***************************************************************************)
PlaceSizes == 1..8
PlaceSeeds == (1..16) \cup {42, 1337, NonNumeric}

PlaceCall ==
  /\ gen.phase = "path"
  /\ gen' = [gen EXCEPT !.phase = "returned",
                        !.out = placeRun(gen.m, createRng(gen.seed, gen.e))]
  /\ UNCHANGED <<sessionVars, val>>

PlaceInit ==
  /\ SessionOff
  /\ val = NoCall
  /\ \E n \in PlaceSizes, sd \in PlaceSeeds, e \in Entropy :
       gen = [phase |-> "path", size |-> n, seed |-> sd, e |-> e,
              m |-> [size |-> n, fallback |-> FALSE, attempt |-> 0,
                     path |-> ColumnSweep(n, [x \in 1..n |-> x - 1])],
              out |-> NoGrid]

PlaceNext == PlaceCall

PlaceSpec == PlaceInit /\ [][PlaceNext]_vars

(***************************************************************************)
(* The validator on its own: a caller holds a grid and a path and calls    *)
(* validatePath and nextRequiredDigitFromPath on them.  The grids are the  *)
(* n x n grids, n of ValSizes, whose cells are unlabeled or hold a digit   *)
(* of 1..ValDigits, no digit twice; the paths are the sequences of at most *)
(* MaxLen cells of the grid.                                               *)
(***************************************************************************)
ValSizes  == {2}
ValDigits == 4
MaxLen    == 4

ValCells(n) == {Cell(r, c) : r \in 0..(n - 1), c \in 0..(n - 1)}

ValGrids(n) ==
  {g \in [0..(n - 1) -> [0..(n - 1) -> {null} \cup (1..ValDigits)]] :
     \A p, q \in ValCells(n) :
       p # q /\ valueAt(g, p) # null => valueAt(g, p) # valueAt(g, q)}

ValPaths(n) == UNION {[1..k -> ValCells(n)] : k \in 0..MaxLen}

NoResult == [ok |-> FALSE, reason |-> <<"not called">>]
NoDigit == 0

ValidateCall ==
  /\ val.phase = "input" /\ val.res = NoResult
  /\ val' = [val EXCEPT !.res = validatePath(val.grid, val.path)]
  /\ UNCHANGED <<sessionVars, gen>>

NextDigitCall ==
  /\ val.phase = "input" /\ val.next = NoDigit
  /\ val' = [val EXCEPT !.next = nextRequiredDigitFromPath(val.grid, val.path)]
  /\ UNCHANGED <<sessionVars, gen>>

ValInit ==
  /\ SessionOff
  /\ gen = NoCall
  /\ \E n \in ValSizes : \E g \in ValGrids(n), p \in ValPaths(n) :
       val = [phase |-> "input", grid |-> g, path |-> p, res |-> NoResult,
              next |-> NoDigit]

ValNext == ValidateCall \/ NextDigitCall

ValSpec == ValInit /\ [][ValNext]_vars

(***************************************************************************)
(* The generator's claims, checked under GenSpec                           *)
(***************************************************************************)
\* p is a Hamiltonian path of the n x n grid: n * n cells, all inside the
\* grid, every cell of the grid exactly once, consecutive cells at
\* Manhattan distance 1
IsHamiltonianPath(n, p) ==
  /\ Len(p) = n * n
  /\ \A i \in 1..Len(p) : inBounds(n, p[i].row, p[i].col)
  /\ \A r \in 0..(n - 1), c \in 0..(n - 1) :
        Cardinality({i \in 1..Len(p) : p[i] = Cell(r, c)}) = 1
  /\ \A i \in 2..Len(p) :
        Abs(p[i].row - p[i - 1].row) + Abs(p[i].col - p[i - 1].col) = 1

\* C1: for every size N >= 2 and every seed, the list that
\* buildRandomHamiltonianPath returns is a Hamiltonian path of the grid,
\* whether a dfs attempt or the fallback produced it.
C1_PathIsHamiltonian ==
  (gen.phase = "path" /\ gen.m.pc = "done" /\ gen.size >= 2)
    => IsHamiltonianPath(gen.size, gen.m.path)

\* the cells of g that hold d
cellsHolding(g, d) == {p \in GridCells(g) : valueAt(g, p) = d}

\* the 1-based index on path p of the cell of g that holds d
indexOfDigit(g, p, d) == CHOOSE i \in 1..Len(p) : valueAt(g, p[i]) = d

\* C2: the grid generateGrid returns for a size N >= 1 holds exactly the
\* digits 1..K, K = min(9, N * N), each on exactly one cell and every other
\* cell null; along the generating path the digits 1, 2, ..., K come at
\* strictly increasing indices and K is on the path's last cell.
C2_DigitPlacement ==
  (gen.phase = "returned" /\ gen.size >= 1) =>
    LET g == gen.out.grid
        p == gen.out.path
        K == MinOf(9, gen.size * gen.size)
    IN  /\ gridLength(g) = gen.size
        /\ \A d \in 1..K : Cardinality(cellsHolding(g, d)) = 1
        /\ \A c \in GridCells(g) : valueAt(g, c) = null \/ valueAt(g, c) \in 1..K
        /\ \A d \in 1..K : \E i \in 1..Len(p) : valueAt(g, p[i]) = d
        /\ \A d \in 1..(K - 1) : indexOfDigit(g, p, d) < indexOfDigit(g, p, d + 1)
        /\ valueAt(g, p[Len(p)]) = K

\* a 4 x 4 grid was returned: 9 digits and 7 unlabeled cells
C2_Witness ==
  /\ gen.phase = "returned" /\ gen.size = 4
  /\ Cardinality(cellsHolding(gen.out.grid, null)) = 7
  /\ valueAt(gen.out.grid, gen.out.path[16]) = 9

\* C3: generateGrid is deterministic for a numeric seed: a call with the
\* size and the seed of an earlier call returns the grid that call returned,
\* cell by cell, whatever calls were made in between.
C3_Deterministic ==
  (/\ gen.phase = "returned" /\ gen.first # NoCall
   /\ gen.seed = gen.first.seed /\ gen.size = gen.first.size)
    => \A c \in GridCells(gen.first.grid) :
         valueAt(gen.out.grid, c) = valueAt(gen.first.grid, c)

\* the third call repeats the first, a different call lying in between
C3_Witness ==
  /\ gen.phase = "returned" /\ gen.first # NoCall
  /\ gen.first.call = 1 /\ gen.calls = 3
  /\ gen.seed = gen.first.seed /\ gen.size = gen.first.size
  /\ gen.size >= 2

(***************************************************************************)
(* The validator's claims, checked under ValSpec                           *)
(***************************************************************************)
\* the digits on grid g
digitsOf(g) == {valueAt(g, p) : p \in {q \in GridCells(g) : valueAt(g, q) # null}}

\* the 1-based indices of path p whose cell holds d
indicesHolding(g, p, d) == {i \in 1..Len(p) : valueAt(g, p[i]) = d}

\* the five conditions of a winning path p on grid g
FullLength(g, p) == Len(p) = gridLength(g) * gridLength(g)

AllDistinct(p) == \A i, j \in 1..Len(p) : i # j => p[i] # p[j]

AllAdjacent(p) ==
  \A i \in 2..Len(p) :
    Abs(p[i].row - p[i - 1].row) + Abs(p[i].col - p[i - 1].col) = 1

DigitsInOrder(g, p) ==
  \A d \in 1..(SetMax(digitsOf(g) \cup {0}) - 1) :
    /\ indicesHolding(g, p, d) # {}
    /\ indicesHolding(g, p, d + 1) # {}
    /\ \A i \in indicesHolding(g, p, d), j \in indicesHolding(g, p, d + 1) : i < j

EndsOnMaxDigit(g, p) ==
  /\ p # <<>>
  /\ digitsOf(g) # {}
  /\ valueAt(g, p[Len(p)]) = SetMax(digitsOf(g))

\* C5: validatePath returns ok = true if and only if the path has N * N
\* cells, the cells are distinct, consecutive cells are 4-adjacent, every d
\* of 1..maxDigit-1 is on the path before d + 1, and the last cell holds the
\* grid's maximum digit.
C5_OkIffAllFive ==
  val.phase = "input" /\ val.res # NoResult =>
    (val.res.ok <=> /\ FullLength(val.grid, val.path)
                    /\ AllDistinct(val.path)
                    /\ AllAdjacent(val.path)
                    /\ DigitsInOrder(val.grid, val.path)
                    /\ EndsOnMaxDigit(val.grid, val.path))

\* a full path over three digits was accepted
C5_Witness ==
  /\ val.phase = "input" /\ val.res # NoResult /\ val.res.ok
  /\ Cardinality(digitsOf(val.grid)) = 3

\* C6: validatePath checks length, distinctness, adjacency, digit order and
\* the last cell's digit in this order, and returns the reason of the first
\* check that fails.
C6_FirstFailingReason ==
  val.phase = "input" /\ val.res # NoResult =>
    IF ~FullLength(val.grid, val.path) THEN val.res.reason = ReasonEveryCell
    ELSE IF ~AllDistinct(val.path) THEN val.res.reason = ReasonTwice
    ELSE IF ~AllAdjacent(val.path) THEN val.res.reason = ReasonNonAdjacent
    ELSE IF ~DigitsInOrder(val.grid, val.path)
         THEN val.res.reason \in {ReasonMissing, ReasonNotAscending}
    ELSE IF ~EndsOnMaxDigit(val.grid, val.path)
         THEN val.res.reason = ReasonMustEndOn(SetMax(digitsOf(val.grid) \cup {0}))
    ELSE val.res.reason = ReasonValid

\* a path that is too short and visits a cell twice got the length reason
C6_Witness ==
  /\ val.phase = "input" /\ val.res # NoResult
  /\ Len(val.path) = 3 /\ ~AllDistinct(val.path)
  /\ val.res.reason = ReasonEveryCell

(***************************************************************************)
(* The session's claims, checked under Spec                                *)
(***************************************************************************)
\* a drag-enter onto c appends c to the path p drawn on g: c is adjacent to
\* the last cell, not on the path, and holds no digit but the required one
canAppend(g, p, c) ==
  /\ isAdjacent(p[Len(p)], c)
  /\ c \notin {p[i] : i \in 1..Len(p)}
  /\ ~wrongDigit(g, p, c)

\* drag-enters can take the drawn path p to a full path that a release
\* validates
RECURSIVE canComplete(_, _)
canComplete(g, p) ==
  IF Len(p) = gridLength(g) * gridLength(g) THEN validatePath(g, p).ok
  ELSE \E c \in GridCells(g) : canAppend(g, p, c) /\ canComplete(g, Append(p, c))

\* one press, N * N - 1 drag-enters and one release complete the puzzle g
Solvable(g) ==
  \E c \in GridCells(g) : ~mustStartElsewhere(g, c) /\ canComplete(g, <<c>>)

\* C4: every generated puzzle is solvable through the engine: once started,
\* one press, N * N - 1 drag-enters and one release exist on the generated
\* grid after which completed is true.
C4_GeneratedPuzzleSolvable ==
  (started /\ gridSize \in 2..5) => Solvable(grid)

\* C7: while started is false, a press or a drag-enter on any cell leaves
\* the whole session state unchanged.
C7_IgnoredUntilStarted ==
  [][(~started /\ ev'.kind \in {"press", "drag"}) => (UNCHANGED hookVars /\ ~threw')]_vars

\* a press or a drag-enter on a cell of the grid was delivered before Start
C7_Witness ==
  /\ ~started /\ ev.kind \in {"press", "drag"} /\ ev.cell \in Cells
  /\ path = <<>> /\ ~isDrawing

\* C8: a press on cell c while started and not drawing: if the grid holds a
\* 1 and c does not, the press is rejected (path and history unchanged, not
\* drawing, invalid marker on c, the start-on-1 reason); otherwise the path
\* becomes <<c>>, exactly the snapshot <<c>> is pushed and drawing begins.
C8_Press ==
  [][(started /\ ~isDrawing /\ ev'.kind = "press" /\ ev'.cell \in Cells) =>
       IF hasOne(grid) /\ valueAt(grid, ev'.cell) # 1
       THEN /\ path' = path /\ history' = history /\ ~isDrawing'
            /\ invalidAt' = ev'.cell
            /\ validation' = Result(FALSE, ReasonStartOnOne)
       ELSE /\ path' = <<ev'.cell>>
            /\ history' = Append(history, <<ev'.cell>>)
            /\ isDrawing']_vars

\* the first press after Start was on a cell that holds a digit other than
\* 1 and was rejected
C8_Witness ==
  /\ started /\ ev.kind = "press" /\ ev.n = 2 /\ ~isDrawing
  /\ valueAt(grid, ev.cell) \notin {null, 1}
  /\ invalidAt = ev.cell /\ validation = Result(FALSE, ReasonStartOnOne)
  /\ path = <<>> /\ history = <<>>

C10_RevisitRejected ==
  [][(isDrawing /\ ev'.kind = "drag" /\ ev'.cell \in pathSet
        /\ ev'.cell # path[Len(path)] /\ ev'.cell # path[Len(path) - 1]) =>
       (path' = path /\ history' = history /\ ~threw')]_vars

\* a drag-enter from the last cell onto an adjacent earlier cell of the
\* path, not the previous one, was rejected as a revisit
C10_Witness ==
  /\ isDrawing /\ ev.kind = "drag" /\ ev.cell \in pathSet
  /\ Len(path) >= 4 /\ ev.cell # path[Len(path)] /\ ev.cell # path[Len(path) - 1]
  /\ isAdjacent(path[Len(path)], ev.cell)
  /\ invalidAt = ev.cell /\ validation = Result(FALSE, ReasonRevisit)

\* the digits met along path p on grid g, in path order
digitsAlong(g, p) ==
  LET labelled(v) == v # null
  IN  SelectSeq([i \in 1..Len(p) |-> valueAt(g, p[i])], labelled)

\* the digit required after path p on grid g: one more than the length of
\* the unbroken run 1, 2, ..., k the digits met along the path begin with,
\* and at most the grid's maximum digit
requiredAfter(g, p) ==
  LET ds  == digitsAlong(g, p)
      run == SetMax({k \in 0..Len(ds) : \A d \in 1..k : ds[d] = d})
  IN  MinOf(run + 1, MaxOf(1, SetMax(digitsOf(g) \cup {0})))

\* C11: while drawing, a drag-enter onto an adjacent, unvisited cell that
\* holds a digit other than the required one leaves path and history
\* unchanged, marks the cell invalid and gives the reason naming the required
\* digit; onto an unlabeled cell or the required digit it appends the cell
\* and pushes one snapshot.
C11_DigitOrderRule ==
  [][(/\ isDrawing /\ path # <<>> /\ ev'.kind = "drag" /\ ev'.cell \in Cells
      /\ isAdjacent(path[Len(path)], ev'.cell) /\ ev'.cell \notin pathSet) =>
       IF /\ valueAt(grid, ev'.cell) # null
          /\ valueAt(grid, ev'.cell) # requiredAfter(grid, path)
       THEN /\ path' = path /\ history' = history
            /\ invalidAt' = ev'.cell
            /\ validation' = Result(FALSE, ReasonMustGoTo(requiredAfter(grid, path)))
       ELSE /\ path' = Append(path, ev'.cell)
            /\ history' = Append(history, path')
            /\ invalidAt' = NoCell]_vars

\* a drag-enter from the cell holding 1 onto an adjacent cell holding a
\* digit above 2 was rejected with the reason naming 2
C11_Witness ==
  /\ isDrawing /\ ev.kind = "drag" /\ ev.drawn = 1 /\ Len(path) = 1
  /\ valueAt(grid, path[1]) = 1
  /\ isAdjacent(path[1], ev.cell) /\ valueAt(grid, ev.cell) > 2
  /\ invalidAt = ev.cell /\ validation = Result(FALSE, ReasonMustGoTo(2))

\* C12: a release while drawing a path of N * N cells that fails validation
\* sets the failure reason and discards the attempt: afterwards path and
\* history are empty, the engine is not drawing and completed is false.
C12_FailedAttemptDiscarded ==
  [][(/\ started /\ isDrawing /\ Len(path) = gridSize * gridSize
      /\ ~validatePath(grid, path).ok /\ ev'.kind = "release") =>
       /\ validation' = validatePath(grid, path)
       /\ path' = <<>> /\ history' = <<>>
       /\ ~isDrawing' /\ ~completed']_vars

\* C13: a release while drawing a path shorter than N * N discards the
\* attempt: afterwards path and history are empty, the engine is not drawing
\* and completed is false.
C13_PartialAttemptDiscarded ==
  [][(isDrawing /\ Len(path) < gridSize * gridSize /\ ev'.kind = "release") =>
       (path' = <<>> /\ history' = <<>> /\ ~isDrawing' /\ ~completed')]_vars

\* a release found a path of two or more cells being drawn and left nothing
C13_Witness ==
  /\ ev.kind = "release" /\ ev.drawn >= 2 /\ ev.drawn < gridSize * gridSize
  /\ path = <<>> /\ history = <<>> /\ ~isDrawing /\ ~completed

\* C14: completed is terminal: once completed is true, no press, drag-enter,
\* release or cancel changes path, history or completed.
C14_CompletedIsTerminal ==
  [][(completed /\ ev'.kind \in {"press", "drag", "release", "cancel"}) =>
       (path' = path /\ history' = history /\ completed' = completed)]_vars

\* C15: undo called when history holds exactly one snapshot empties path and
\* history, sets completed to false and resets the validation result.
C15_UndoLastSnapshot ==
  [][(Len(history) = 1 /\ ev'.kind = "undo") =>
       /\ path' = <<>> /\ history' = <<>>
       /\ ~completed' /\ validation' = NoValidation]_vars

\* the press after Start began a path (the engine is still drawing) and the
\* undo that followed emptied it
C15_Witness ==
  /\ ev.kind = "undo" /\ ev.n = 3 /\ ev.drawn = 1 /\ isDrawing
  /\ path = <<>> /\ history = <<>> /\ ~completed /\ validation = NoValidation

\* C16: after restart, from any state, started is true, path and history
\* are empty, completed is false, validation and invalid marker are cleared
\* and the grid is the one generated from the freshly drawn seed.
C16_Restart ==
  [][ev'.kind = "restart" =>
       /\ started' /\ path' = <<>> /\ history' = <<>> /\ ~completed'
       /\ validation' = NoValidation /\ invalidAt' = NoCell
       /\ gridSeed' \in RandomSeeds /\ grid' = grids[gridSeed']]_vars

\* a restart found a path being drawn and left a cleared, started session
C16_Witness ==
  /\ ev.kind = "restart" /\ ev.drawn >= 2
  /\ started /\ path = <<>> /\ history = <<>> /\ ~completed
  /\ validation = NoValidation /\ invalidAt = NoCell
  /\ gridSeed \in RandomSeeds /\ grid = grids[gridSeed]

\* C17: reset clears path, history, completed, the validation result and
\* the invalid marker and leaves the grid, the seed and started unchanged.
C17_Reset ==
  [][ev'.kind = "reset" =>
       /\ path' = <<>> /\ history' = <<>> /\ ~completed'
       /\ validation' = NoValidation /\ invalidAt' = NoCell
       /\ grid' = grid /\ gridSeed' = gridSeed /\ started' = started]_vars

\* a reset found a path being drawn on a started session's grid
C17_Witness ==
  /\ ev.kind = "reset" /\ ev.drawn >= 2 /\ started /\ gridSeed \in RandomSeeds
  /\ path = <<>> /\ history = <<>> /\ validation = NoValidation

\* C18: resetAll, from any state, returns to the pre-game state: started
\* false, not drawing, path and history empty, completed false, validation
\* and invalid marker cleared, the seed the initial seed and the grid the one
\* shown on mount.
C18_ResetAll ==
  [][ev'.kind = "resetAll" =>
       /\ ~started' /\ ~isDrawing' /\ path' = <<>> /\ history' = <<>>
       /\ ~completed' /\ validation' = NoValidation /\ invalidAt' = NoCell
       /\ gridSeed' = initialSeed /\ grid' = grids[initialSeed]]_vars

\* a resetAll found a path being drawn (on a started session, whose seed
\* Start had drawn) and left the pre-game state
C18_Witness ==
  /\ ev.kind = "resetAll" /\ ev.drawn >= 2
  /\ ~started /\ ~isDrawing /\ path = <<>> /\ history = <<>>
  /\ gridSeed = initialSeed /\ grid = grids[initialSeed]

\* C19: a window blur while drawing forces the engine out of drawing and
\* discards the attempt: afterwards the engine is not drawing and path and
\* history are empty.
C19_BlurDiscards ==
  [][(isDrawing /\ ev'.kind = "blur") =>
       (~isDrawing' /\ path' = <<>> /\ history' = <<>>)]_vars

\* C20: in every reachable state history is empty if and only if path is
\* empty, and a non-empty history's last snapshot is the path.
C20_HistoryMatchesPath ==
  /\ (history = <<>>) <=> (path = <<>>)
  /\ history # <<>> => history[Len(history)] = path

\* an undo left a history of two or more snapshots whose last is the path
C20_Witness ==
  /\ ev.kind = "undo" /\ Len(history) >= 2 /\ history[Len(history)] = path

\* p is a sequence of pairwise distinct cells of the n x n grid whose
\* consecutive cells are at Manhattan distance 1
IsSimplePath(n, p) ==
  /\ \A i \in 1..Len(p) :
       p[i].row \in 0..(n - 1) /\ p[i].col \in 0..(n - 1)
  /\ \A i, j \in 1..Len(p) : i # j => p[i] # p[j]
  /\ \A i \in 1..(Len(p) - 1) :
       Abs(p[i].row - p[i + 1].row) + Abs(p[i].col - p[i + 1].col) = 1

\* C21: in every reachable state the path is a sequence of pairwise distinct
\* in-grid cells in which every consecutive pair is 4-adjacent.
C21_PathIsSimple == IsSimplePath(size, path)

\* a path of three or more cells drawn by extensions and at least one
\* backtrack (the history holds more snapshots than the path has cells)
C21_Witness ==
  /\ isDrawing /\ ev.kind = "drag" /\ Len(path) >= 3 /\ Len(history) > Len(path)

\* g is a complete n x n grid: n rows of n cells, each unlabeled or a digit
IsCompleteGrid(n, g) ==
  /\ DOMAIN g = 0..(n - 1)
  /\ \A r \in 0..(n - 1) :
       /\ DOMAIN g[r] = 0..(n - 1)
       /\ \A c \in 0..(n - 1) : g[r][c] = null \/ g[r][c] \in 1..9

\* C22: generateGrid terminates for every N >= 1 and every seed: the search
\* runs at most 12 dfs attempts (attempts 0..11; the fallback sweep is built
\* in place of a thirteenth), every call returns, and what it returns is a
\* complete N x N grid.
C22_GenerateGridTerminates ==
  /\ [](gen.phase = "path" =>
          IF gen.m.fallback THEN gen.m.attempt = 12 ELSE gen.m.attempt < 12)
  /\ [](gen.phase = "returned" => IsCompleteGrid(gen.size, gen.out.grid))
  /\ (gen.phase = "path") ~> (gen.phase = "returned")

\* a call whose 12 attempts failed returned the grid of the fallback sweep
C22_Witness ==
  /\ gen.phase = "returned" /\ gen.size = 3 /\ gen.m.fallback
  /\ gen.m.attempt = 12 /\ IsCompleteGrid(3, gen.out.grid)

\* C23: when all 12 attempts fail, the fallback column sweep returns a
\* Hamiltonian path: N * N distinct cells, every consecutive pair
\* 4-adjacent, for every column order the shuffle produces.
C23_FallbackIsHamiltonian ==
  (gen.phase \in {"path", "returned"} /\ gen.m.fallback)
    => IsHamiltonianPath(gen.size, gen.m.path)

\* C24: every release or cancel received while drawing ends the drawing
\* state: with a path of N * N cells the validator's result is recorded,
\* otherwise the attempt is discarded; either way the engine is not drawing
\* afterwards.
C24_ReleaseOrCancelEndsDrawing ==
  [][(isDrawing /\ ev'.kind \in {"release", "cancel"}) =>
       /\ ~isDrawing'
       /\ IF Len(path) = gridSize * gridSize
          THEN validation' = validatePath(grid, path)
          ELSE path' = <<>> /\ history' = <<>>]_vars

\* C25: while drawing, a drag-enter onto the path's last cell, or onto a
\* cell that is not 4-adjacent to it, changes nothing: path, history,
\* completed, the validation result and the invalid-cell marker are as before.
C25_IgnoredDragChangesNothing ==
  [][(/\ started /\ isDrawing /\ path # <<>>
      /\ ev'.kind = "drag" /\ ev'.cell \in Cells
      /\ \/ ev'.cell = path[Len(path)]
         \/ Abs(ev'.cell.row - path[Len(path)].row)
              + Abs(ev'.cell.col - path[Len(path)].col) # 1) =>
       /\ path' = path /\ history' = history /\ completed' = completed
       /\ validation' = validation /\ invalidAt' = invalidAt]_vars

\* C26: after an undo that empties the path (the history had at most one
\* snapshot) the engine is idle: it is not drawing, and a drag-enter that
\* follows is not processed (it changes nothing and raises no error).
C26_UndoToIdle ==
  [][/\ (ev'.kind = "undo" /\ Len(history) <= 1) => ~isDrawing'
     /\ (ev.kind = "undo" /\ path = <<>> /\ ev'.kind = "drag") =>
          (UNCHANGED hookVars /\ ~threw')]_vars

\* C27: the seed re-roll of start and of restart has a collision guard:
\* when the drawn seed equals the current grid seed a second one is drawn
\* and used, so the active seed differs from the prior one whenever the
\* first or the second draw differs from it.
C27_SeedCollisionGuard ==
  [][ev'.kind \in {"start", "restart"} =>
       IF ev'.seeds[1] = gridSeed
       THEN Len(ev'.seeds) = 2 /\ gridSeed' = ev'.seeds[2]
       ELSE gridSeed' = ev'.seeds[1] /\ gridSeed' # gridSeed]_vars

\* v is the feedback of a rejected move
IsRejection(v) ==
  /\ ~v.ok
  /\ v.reason \in {ReasonStartOnOne, ReasonRevisit} \cup {ReasonMustGoTo(k) : k \in 1..9}

\* C28: the feedback of a rejected move is cleared by the next accepted
\* action: after an accepted press, extension or backtrack (each pushes one
\* snapshot) the invalid-cell marker is null and the validation value does
\* not carry the earlier rejection reason.
C28_FeedbackCleared ==
  [][(/\ ev'.kind \in {"press", "drag"}
      /\ history' = Append(history, path')
      /\ (invalidAt # NoCell \/ IsRejection(validation))) =>
       /\ invalidAt' = NoCell
       /\ ~(IsRejection(validation') /\ validation'.reason = validation.reason)]_vars

(***************************************************************************)
(* The required digit, checked under ValSpec                               *)
(***************************************************************************)
\* ds meets the run 1, 2, ..., k unbroken: the digits 1..k are at
\* increasing places f[1] < ... < f[k], and every digit before f[j] and
\* after f[j - 1] is below j (it is skipped, not one that stops the scan)
MeetsRun(ds, k) ==
  \E f \in [1..k -> 1..Len(ds)] :
    /\ \A j \in 1..k : ds[f[j]] = j
    /\ \A j \in 2..k : f[j - 1] < f[j]
    /\ \A j \in 1..k : \A q \in 1..(f[j] - 1) :
         (j = 1 \/ q > f[j - 1]) => ds[q] < j

\* the length c of the unbroken run of digits met in path order
runLength(g, p) ==
  SetMax({k \in 0..Len(digitsAlong(g, p)) : MeetsRun(digitsAlong(g, p), k)})

\* C29: nextRequiredDigitFromPath(grid, path) is min(c + 1, max(1, maxDigit)),
\* c the length of the unbroken run 1..c of digits met in path order and
\* maxDigit the largest digit of the grid; it lies in 1..max(1, maxDigit)
\* and does not decrease when a cell is appended to the path.
C29_NextRequiredDigit ==
  val.phase = "input" /\ val.next # NoDigit =>
    LET top == MaxOf(1, SetMax(digitsOf(val.grid) \cup {0}))
    IN  /\ val.next = MinOf(runLength(val.grid, val.path) + 1, top)
        /\ val.next \in 1..top
        /\ \A c \in GridCells(val.grid) :
             nextRequiredDigitFromPath(val.grid, Append(val.path, c)) >= val.next

\* the path meets 1, 1 again (skipped), 2 and then 4, which stops the scan
\* before the grid's largest digit: 3 is required
C29_Witness ==
  /\ val.phase = "input" /\ val.next = 3
  /\ digitsAlong(val.grid, val.path) = <<1, 1, 2, 4>>

(***************************************************************************)
(* Undo after a move, checked under Spec                                   *)
(***************************************************************************)
\* C30: after a successful extension or backtrack (the drag-enter changed
\* the path), an undo that follows at once restores path and history to
\* what they were before that move and sets completed to false; after a
\* backtrack it restores the longer path.
C30_UndoRestoresMove ==
  [][(/\ ev.kind = "drag" /\ ev.before # <<>>
      /\ path # ev.before[1]
      /\ ev'.kind = "undo") =>
       (path' = ev.before[1] /\ history' = ev.before[2] /\ ~completed')]_vars

\* an undo found a path of two or more cells and left one a cell longer: it
\* undid a backtrack
C30_Witness ==
  /\ ev.kind = "undo" /\ ev.drawn >= 2 /\ Len(path) = ev.drawn + 1
  /\ history # <<>> /\ history[Len(history)] = path /\ ~completed

(***************************************************************************)
(* The session's structure, checked under Spec                             *)
(***************************************************************************)
\* q is p with one cell appended at the end, or p with its last cell removed
OneMoveApart(p, q) ==
  \/ Len(q) = Len(p) + 1 /\ SubSeq(q, 1, Len(p)) = p
  \/ Len(q) = Len(p) - 1 /\ SubSeq(p, 1, Len(q)) = q

\* C31: in every reachable state with a non-empty history the first
\* snapshot is a one-cell path and each later snapshot differs from the one
\* before it by one cell appended at the end or one cell removed from the
\* end.
C31_HistoryStepsByOneMove ==
  history # <<>> =>
    /\ Len(history[1]) = 1
    /\ \A i \in 2..Len(history) : OneMoveApart(history[i - 1], history[i])

(***************************************************************************)
(* The search order, checked under GenLive                                 *)
(***************************************************************************)
\* the innermost dfs call in progress and the cells visited when it began
topFrame == gen.m.stack[Len(gen.m.stack)]
visitedAtEntry == {gen.m.path[i] : i \in 1..topFrame.depth}

\* the cell direction d leads to from the innermost call's cell
target(d) == Cell(topFrame.r + d.dr, topFrame.c + d.dc)

\* a cell the search can step on: in the grid and not visited
isOpen(p) ==
  /\ p.row \in 0..(gen.size - 1) /\ p.col \in 0..(gen.size - 1)
  /\ p \notin visitedAtEntry

\* the number of open cells next to p
onwardOptions(p) ==
  Cardinality({q \in {Cell(p.row - 1, p.col), Cell(p.row + 1, p.col),
                      Cell(p.row, p.col - 1), Cell(p.row, p.col + 1)} : isOpen(q)})

\* d comes before e in the order arr
comesBefore(arr, d, e) ==
  \E i, j \in 1..Len(arr) : i < j /\ arr[i] = d /\ arr[j] = e

\* C32: the neighbour order a dfs step tries, before the occasional swap,
\* is sorted ascending by unvisited degree: every open neighbour comes
\* before every direction that leaves the grid or leads to a visited cell,
\* among open neighbours one with fewer open neighbours of its own comes
\* first, and ties keep the order the shuffle and the bias produced.
C32_NeighbourOrder ==
  (gen.phase = "path" /\ gen.m.stack # <<>>) =>
    LET sorted == topFrame.sorted
        biased == topFrame.biased
    IN  /\ {sorted[i] : i \in 1..4} = {DIRS[i] : i \in 1..4}
        /\ \A i, j \in 1..4 : i < j =>
             LET d == sorted[i]
                 e == sorted[j]
             IN  /\ isOpen(target(e)) => isOpen(target(d))
                 /\ isOpen(target(e)) =>
                      onwardOptions(target(d)) <= onwardOptions(target(e))
                 /\ \/ isOpen(target(d)) /\ ~isOpen(target(e))
                    \/ /\ isOpen(target(d)) /\ isOpen(target(e))
                       /\ onwardOptions(target(d)) < onwardOptions(target(e))
                    \/ comesBefore(biased, d, e)

\* the sort moved an open neighbour with fewer onward options in front of
\* one the shuffle had put first, and left a tie in the shuffle's order
C32_Witness ==
  /\ gen.phase = "path" /\ gen.m.stack # <<>> /\ gen.size = 4
  /\ topFrame.sorted # topFrame.biased
  /\ \E i \in 1..3 :
       /\ isOpen(target(topFrame.sorted[i])) /\ isOpen(target(topFrame.sorted[i + 1]))
       /\ onwardOptions(target(topFrame.sorted[i]))
            = onwardOptions(target(topFrame.sorted[i + 1]))

\* a Hamiltonian path of the n x n grid continues from p, a simple path
\* that ends on p[Len(p)]
RECURSIVE HamiltonianFrom(_, _)
HamiltonianFrom(n, p) ==
  LET last == p[Len(p)]
      seen == {p[i] : i \in 1..Len(p)}
      next == {q \in {Cell(last.row - 1, last.col), Cell(last.row + 1, last.col),
                      Cell(last.row, last.col - 1), Cell(last.row, last.col + 1)} :
                 /\ q.row \in 0..(n - 1) /\ q.col \in 0..(n - 1) /\ q \notin seen}
  IN  IF Len(p) = n * n THEN TRUE
      ELSE \E q \in next : HamiltonianFrom(n, Append(p, q))

isOdd(p) == (p.row + p.col) % 2 = 1

\* C33: a dfs attempt is a complete search: it fails only when no
\* Hamiltonian path of the grid begins at its start cell, and what it
\* returns is a full path from that cell; so for even N the first attempt
\* succeeds and the fallback is never used, and for odd N the attempts that
\* fail are those whose start cell has odd row + col.
C33_AttemptIsCompleteSearch ==
  gen.phase \in {"path", "returned"} =>
    /\ \A s \in gen.m.failed : ~HamiltonianFrom(gen.size, <<s>>)
    /\ (gen.m.pc = "done" /\ ~gen.m.fallback) =>
         /\ Len(gen.m.path) = gen.size * gen.size
         /\ gen.m.path[1] = gen.m.start
    /\ gen.size % 2 = 0 => gen.m.failed = {} /\ ~gen.m.fallback
    /\ gen.size % 2 = 1 =>
         /\ \A s \in gen.m.failed : isOdd(s)
         /\ gen.m.pc = "done" /\ ~gen.m.fallback => ~isOdd(gen.m.start)

\* on the 3 x 3 grid an attempt from a cell of odd row + col failed and a
\* later attempt of the same call, from another cell, returned a full path
C33_Witness ==
  /\ gen.phase = "path" /\ gen.size = 3 /\ gen.m.pc = "done" /\ ~gen.m.fallback
  /\ gen.m.failed # {} /\ Len(gen.m.path) = 9

(***************************************************************************)
(* The place of digit 1, checked under PlaceSpec                           *)
(***************************************************************************)
\* the jitter the first index gets in the call that returned
firstJitter ==
  jitterOf(mulberry32(createRng(gen.seed, gen.e)).u,
           MaxOf(1, (gen.size * gen.size) \div (MinOf(9, gen.size * gen.size) * 3)), 0)

\* C34: for every N from 1 to 8 and every seed, digit 1 is on index 0 of
\* the generating path, its first cell: the first index's jitter is never
\* positive and the sort and the two passes leave the smallest index at 0.
C34_DigitOneOnFirstCell ==
  gen.phase = "returned" =>
    /\ gen.out.grid[gen.out.path[1].row][gen.out.path[1].col] = 1
    /\ gen.size >= 2 => firstJitter <= 0 /\ gen.out.jittered[1] = 0

\* the default size: the first index drew a negative jitter, was clamped
\* to 0 and holds digit 1
C34_Witness ==
  /\ gen.phase = "returned" /\ gen.size = 5 /\ firstJitter < 0
  /\ gen.out.jittered[1] = 0
  /\ gen.out.grid[gen.out.path[1].row][gen.out.path[1].col] = 1

engineBuilds(g, p) ==
  /\ p # <<>>
  /\ ~mustStartElsewhere(g, p[1])
  /\ \A i \in 2..Len(p) : canAppend(g, SubSeq(p, 1, i - 1), p[i])

\* g holds the digits 1..K, as a generated grid does (the unlabeled cells
\* of a grid with K < N * N are those of a generated grid of 4 x 4 or more)
holdsOneToK(g) == \E K \in 1..ValDigits : digitsOf(g) = 1..K

\* C36: every path of N * N cells the engine can build by press and
\* drag-enter on a grid holding 1..K passes the validator's length,
\* distinctness, adjacency and digit-order checks: the validator's answer
\* is ok or 'Path must end on {maxDigit}'.
C36_BuiltPathFailsOnlyAtEnd ==
  (/\ val.phase = "input" /\ val.res # NoResult
   /\ holdsOneToK(val.grid) /\ engineBuilds(val.grid, val.path)
   /\ Len(val.path) = gridLength(val.grid) * gridLength(val.grid)) =>
    \/ val.res.ok
    \/ val.res.reason = ReasonMustEndOn(SetMax(digitsOf(val.grid)))

\* a built full path that meets 1 and 2 and ends on an unlabeled cell
C36_Witness ==
  /\ val.phase = "input" /\ val.res = Result(FALSE, ReasonMustEndOn(2))
  /\ digitsOf(val.grid) = {1, 2} /\ engineBuilds(val.grid, val.path)
  /\ Len(val.path) = 4 /\ digitsAlong(val.grid, val.path) = <<1, 2>>
  /\ valueAt(val.grid, val.path[4]) = null

(***************************************************************************)
(* More of the session, checked under Spec                                 *)
(***************************************************************************)
\* C37: completed changes from false to true only in a release step in
\* which the path has N * N cells and validatePath(grid, path).ok is true.
C37_CompletedOnlyByValidRelease ==
  [][(~completed /\ completed') =>
       /\ ev'.kind = "release" /\ isDrawing
       /\ Len(path) = gridSize * gridSize
       /\ validatePath(grid, path).ok]_vars

\* a release of a full path being drawn set completed
C37_Witness ==
  /\ ev.kind = "release" /\ ev.drawn = gridSize * gridSize
  /\ completed /\ validation = Result(TRUE, ReasonValid) /\ ~isDrawing

\* C38: whenever the engine is drawing the path is non-empty, so no
\* drag-enter reads the last cell of an empty path and throws.
C38_DrawingHasPath ==
  /\ isDrawing => path # <<>>
  /\ ~threw

\* C39: in every reachable state in which started is false, the path and
\* the history are empty, completed is false and the engine is not drawing;
\* started becomes false only through reset-all (it is false on mount).
C39_NotStartedIsBlank ==
  /\ [](~started => /\ path = <<>> /\ history = <<>>
                    /\ ~completed /\ ~isDrawing)
  /\ [][(started /\ ~started') => ev'.kind = "resetAll"]_vars

\* a reset-all of a session with a drawn path left it not started
C39_Witness ==
  /\ ev.kind = "resetAll" /\ ev.drawn >= 1
  /\ ~started /\ path = <<>> /\ history = <<>> /\ ~completed /\ ~isDrawing

PointerKinds == {"press", "drag", "release", "cancel", "leave", "blur"}

\* C40: press, drag-enter, release, cancel, blur, undo and reset never
\* change the grid or the active seed; the grid changes only through start,
\* restart and reset-all, after which it is the grid generated from the
\* active seed.
C40_GridFollowsSeed ==
  [][/\ ev'.kind \in PointerKinds \cup {"undo", "reset"} =>
          (grid' = grid /\ gridSeed' = gridSeed)
     /\ grid' # grid => ev'.kind \in {"start", "restart", "resetAll"}
     /\ ev'.kind \in {"start", "restart", "resetAll"} =>
          grid' = grids[gridSeed']]_vars

\* a restart replaced the grid by the one generated from its new seed
C40_Witness ==
  /\ ev.kind = "restart" /\ ev.seeds # <<>>
  /\ gridSeed = ev.seeds[1] /\ gridSeed # initialSeed
  /\ grid = grids[gridSeed]
  /\ grid # grids[initialSeed]

====
